---------------------------- MODULE Spec2Model ----------------------------
(***************************************************************************)
(* Model of bangalore_vendor_scraper.py: the collection pipeline           *)
(* (search_category / collect_all_vendors), record extraction, the phone   *)
(* normalizer, key-based deduplication against the persisted master        *)
(* workbook, and the two exports made by main().                           *)
(*                                                                         *)
(* Text is modelled as a sequence of one-character strings so that         *)
(* str.lower() and str.strip() are computed, not assumed.  A category      *)
(* name is a sequence of words.  A DataFrame is a sequence of rows; a row  *)
(* keeps the columns the program reads back or branches on (Category,      *)
(* Business Name, Address).  The other columns are written once by         *)
(* extract_record and read by no later decision; of these the two phone    *)
(* columns come from validate_phone, which is modelled on its own below.   *)
(***************************************************************************)
EXTENDS Naturals, Sequences, FiniteSets

VARIABLES
    \* ---- main() and the collection pipeline
    pc,            \* "idle" | "search" | "collected": position inside main()
    runs,          \* number of runs of main() started so far
    cat,           \* index into VENDOR_CATEGORIES of the category being searched
    page,          \* index into PageOffsets of the next page to request
    all_results,   \* search_category: raw places gathered for this category
    all_records,   \* collect_all_vendors: records gathered so far in this run
    requests,      \* every page request of this run: <<category index, offset, outcome>>
    existing_df,   \* main: the table returned by load_existing_master()
    new_only_df,   \* main: deduplicate(...)[0]
    new_count,     \* main: deduplicate(...)[1]
    dup_count,     \* main: deduplicate(...)[2]
    datedWritten,  \* this run wrote DATED_FILE
    masterWritten, \* this run wrote MASTER_FILE
    warned,        \* this run logged "No vendors collected."
    readFailed,    \* this run logged "Could not read master file"
    masterFile,    \* MASTER_FILE on disk: [exists, rows of sheet "All Vendors"]
    datedFile,     \* DATED_FILE on disk
    \* ---- deduplicate() applied to drawn inputs
    dd_pc, dd_new, dd_hist, dd_out, dd_again,
    \* ---- validate_phone() applied to drawn inputs
    ph_pc, ph_raw, ph_idx, ph_tried, ph_ret

pipeVars  == <<pc, runs, cat, page, all_results, all_records, requests,
               existing_df, new_only_df, new_count, dup_count, datedWritten,
               masterWritten, warned, readFailed, masterFile, datedFile>>
dedupVars == <<dd_pc, dd_new, dd_hist, dd_out, dd_again>>
phoneVars == <<ph_pc, ph_raw, ph_idx, ph_tried, ph_ret>>
vars      == <<pipeVars, dedupVars, phoneVars>>

---------------------------------------------------------------------------
(* Bounds of the model *)

\* how many entries of VENDOR_CATEGORIES a run searches
NumCategories == 2
\* how many times main() is run
MaxRuns == 2
\* longest table drawn as an input of deduplicate()
MaxLen == 3

---------------------------------------------------------------------------
(* Text *)

\* pandas' missing value (an empty cell read back, or a formula without a
\* cached result): not a character, so it never equals any text
NaN == <<"#NaN">>

LowerChar(c) ==
    CASE c = "A" -> "a"
      [] c = "B" -> "b"
      [] c = "W" -> "w"
      [] c = "Y" -> "y"
      [] c = "Z" -> "z"
      [] OTHER   -> c

\* Series.str.lower(): missing stays missing
Lower(s) == IF s = NaN THEN NaN ELSE [i \in 1..Len(s) |-> LowerChar(s[i])]

RECURSIVE LStrip(_)
LStrip(s) == IF s # <<>> /\ Head(s) = " " THEN LStrip(Tail(s)) ELSE s

RECURSIVE RStrip(_)
RStrip(s) ==
    IF s # <<>> /\ s[Len(s)] = " " THEN RStrip(SubSeq(s, 1, Len(s) - 1)) ELSE s

\* Series.str.strip(): missing stays missing
Strip(s) == IF s = NaN THEN NaN ELSE RStrip(LStrip(s))

\* Series + str, Series + Series: anything added to a missing value is missing
Concat(a, b) == IF a = NaN \/ b = NaN THEN NaN ELSE a \o b

---------------------------------------------------------------------------
(* Deduplication *)

\* a plausible slip: the key is built without .str.lower()
make_key_caseSensitive(df) ==
    [i \in 1..Len(df) |->
        Concat(Concat(Strip(df[i].BusinessName), <<"|", "|">>),
               Strip(df[i].Address))]

make_key(df) ==
    [i \in 1..Len(df) |->
        Concat(Concat(Strip(Lower(df[i].BusinessName)), <<"|", "|">>),
               Strip(Lower(df[i].Address)))]

\* batch[is_new].reset_index(drop=True): the rows whose mask is set, in order
RECURSIVE BoolIndex(_, _)
BoolIndex(df, mask) ==
    IF df = <<>> THEN <<>>
    ELSE (IF Head(mask) THEN <<Head(df)>> ELSE <<>>)
         \o BoolIndex(Tail(df), Tail(mask))

\* a plausible slip: the negation of the mask is lost
deduplicate_keepsKnown(batch, hist) ==
    IF hist = <<>> THEN <<batch, Len(batch), 0>>
    ELSE LET existing_keys == {make_key(hist)[i] : i \in 1..Len(hist)}
             new_keys == make_key(batch)
             is_new   == [i \in 1..Len(batch) |-> new_keys[i] \in existing_keys]
             new_only == BoolIndex(batch, is_new)
         IN  <<new_only, Len(new_only), Len(batch) - Len(new_only)>>

\* a plausible slip: the batch is also de-duplicated against itself
\* (drop_duplicates on the key, first occurrence kept)
deduplicate_uniqueBatch(batch, hist) ==
    LET existing_keys == {make_key(hist)[i] : i \in 1..Len(hist)}
        new_keys == make_key(batch)
        is_new   == [i \in 1..Len(batch) |->
                        /\ new_keys[i] \notin existing_keys
                        /\ \A j \in 1..(i - 1) : new_keys[j] # new_keys[i]]
        new_only == BoolIndex(batch, is_new)
    IN  <<new_only, Len(new_only), Len(batch) - Len(new_only)>>

\* returns <<new_only_df, new_count, duplicate_count>>
deduplicate(batch, hist) ==
    IF hist = <<>> THEN <<batch, Len(batch), 0>>
    ELSE LET existing_keys == {make_key(hist)[i] : i \in 1..Len(hist)}
             new_keys == make_key(batch)
             is_new   == [i \in 1..Len(batch) |-> new_keys[i] \notin existing_keys]
             new_only == BoolIndex(batch, is_new)
             duplicate_count == Cardinality({i \in 1..Len(batch) : ~is_new[i]})
         IN  <<new_only, Len(new_only), duplicate_count>>

---------------------------------------------------------------------------
(* Configuration *)

VENDOR_CATEGORIES ==
    << <<"Event", "Caterers", "Bangalore">>,
       <<"Tent", "House", "Bangalore">>,
       <<"Sound", "System", "Vendors", "Bangalore">>,
       <<"Wedding", "Decorators", "Bangalore">>,
       <<"Event", "Photographers", "Bangalore">>,
       <<"Florists", "Bangalore">>,
       <<"Wedding", "Venues", "Bangalore">>,
       <<"DJ", "Services", "Bangalore">>,
       <<"Event", "Planners", "Bangalore">>,
       <<"Lighting", "Equipment", "Rental", "Bangalore">> >>

\* the categories a run of the model searches: the first NumCategories
Categories == SubSeq(VENDOR_CATEGORIES, 1, NumCategories)

\* for start in [0, 20, 40]
PageOffsets == <<0, 20, 40>>

---------------------------------------------------------------------------
(* The listing source: what a page request can answer *)

PlaceAb     == [title |-> <<"A", "b", " ">>, address |-> <<"Y">>,
                permanently_closed |-> FALSE, status_closed |-> FALSE]
PlaceAbLow  == [title |-> <<"a", "b">>, address |-> <<" ", "y">>,
                permanently_closed |-> FALSE, status_closed |-> FALSE]
PlaceZ      == [title |-> <<"Z">>, address |-> <<"W">>,
                permanently_closed |-> FALSE, status_closed |-> FALSE]
PlaceClosed == [title |-> <<"B">>, address |-> <<"W">>,
                permanently_closed |-> TRUE, status_closed |-> FALSE]
PlaceStatus == [title |-> <<"B">>, address |-> <<"Y">>,
                permanently_closed |-> FALSE, status_closed |-> TRUE]

\* the provider's listings, page by page; a category's pages repeat with
\* period two categories
Directory ==
    << <<PlaceClosed>>, <<PlaceAb, PlaceZ>>, <<PlaceAbLow>>,
       <<PlaceAb>>, <<PlaceStatus, PlaceZ>>, <<PlaceAbLow>> >>

\* results.get("local_results", []) when the request succeeds with listings
LocalResults(c, p) == Directory[(((c - 1) * Len(PageOffsets) + (p - 1)) % Len(Directory)) + 1]

---------------------------------------------------------------------------
(* Record extraction *)

\* category.replace(" Bangalore", "").strip(), on words
RECURSIVE DropCity(_, _)
DropCity(words, first) ==
    IF words = <<>> THEN <<>>
    ELSE (IF ~first /\ Head(words) = "Bangalore" THEN <<>> ELSE <<Head(words)>>)
         \o DropCity(Tail(words), FALSE)

\* None is the empty sequence, a record is a one-element sequence
extract_record(place, category) ==
    IF place.permanently_closed \/ place.status_closed THEN <<>>
    ELSE << [Category     |-> DropCity(category, TRUE),
             BusinessName |-> place.title,
             Address      |-> place.address] >>

\* collect_all_vendors: for place in places: record = extract_record(...)
RECURSIVE ExtractPlaces(_, _)
ExtractPlaces(places, category) ==
    IF places = <<>> THEN <<>>
    ELSE extract_record(Head(places), category)
         \o ExtractPlaces(Tail(places), category)

---------------------------------------------------------------------------
(* The workbook on disk *)

NoFile == [exists |-> FALSE, rows |-> <<>>]

\* a cell holding a formula; openpyxl stores no cached result for it
Formula == <<"=COUNTA">>

\* DataFrame.to_excel: a missing value becomes an empty cell
WriteCell(v) == IF v = NaN THEN <<>> ELSE v

\* pd.read_excel: an empty cell, and a formula without cached result, is missing
ReadCell(c) == IF c = <<>> \/ c = Formula THEN NaN ELSE c

\* _format_vendors_sheet: last = ws.max_row + 2 leaves one empty row, then the
\* "TOTAL VENDORS" row with the COUNTA formula in column B
FooterRows ==
    << [Category |-> <<>>, BusinessName |-> <<>>, Address |-> <<>>],
       [Category |-> <<"TOTAL VENDORS">>, BusinessName |-> Formula, Address |-> <<>>] >>

SheetRows(df) ==
    [i \in 1..Len(df) |->
        [Category     |-> WriteCell(df[i].Category),
         BusinessName |-> WriteCell(df[i].BusinessName),
         Address      |-> WriteCell(df[i].Address)]] \o FooterRows

\* export_to_excel writes the file unless df.empty
Writes(df) == df # <<>>

\* a plausible slip: the workbook is opened and appended to, not rewritten
export_to_excel_appends(df, file) ==
    IF ~Writes(df) THEN file
    ELSE [exists |-> TRUE, rows |-> file.rows \o SheetRows(df)]

\* the file at filepath after export_to_excel(df, filepath, label)
export_to_excel(df, file) ==
    IF ~Writes(df) THEN file
    ELSE [exists |-> TRUE, rows |-> SheetRows(df)]

\* pd.read_excel(MASTER_FILE, sheet_name="All Vendors"): every row under the header
ReadSheet(rows) ==
    [i \in 1..Len(rows) |->
        [Category     |-> ReadCell(rows[i].Category),
         BusinessName |-> ReadCell(rows[i].BusinessName),
         Address      |-> ReadCell(rows[i].Address)]]

\* readable = FALSE: pd.read_excel raises and the function falls through
load_existing_master(file, readable) ==
    IF file.exists /\ readable THEN ReadSheet(file.rows) ELSE <<>>

---------------------------------------------------------------------------
(* main(): one run after another *)

\* nothing of a run that has not happened yet
RunOutputsReset ==
    /\ existing_df' = <<>>
    /\ new_only_df' = <<>>
    /\ new_count' = 0
    /\ dup_count' = 0
    /\ datedWritten' = FALSE
    /\ masterWritten' = FALSE
    /\ warned' = FALSE
    /\ readFailed' = FALSE

RunOutputsUnchanged ==
    UNCHANGED <<existing_df, new_only_df, new_count, dup_count, datedWritten,
                masterWritten, readFailed>>

InitPipeline ==
    /\ pc = "idle"
    /\ runs = 0
    /\ cat = 1
    /\ page = 1
    /\ all_results = <<>>
    /\ all_records = <<>>
    /\ requests = <<>>
    /\ existing_df = <<>>
    /\ new_only_df = <<>>
    /\ new_count = 0
    /\ dup_count = 0
    /\ datedWritten = FALSE
    /\ masterWritten = FALSE
    /\ warned = FALSE
    /\ readFailed = FALSE
    /\ masterFile = NoFile
    /\ datedFile = NoFile

\* main() is started (again); collect_all_vendors begins with the first category
StartRun ==
    /\ pc = "idle"
    /\ runs < MaxRuns
    /\ pc' = "search"
    /\ runs' = runs + 1
    /\ cat' = 1
    /\ page' = 1
    /\ all_results' = <<>>
    /\ all_records' = <<>>
    /\ requests' = <<>>
    /\ RunOutputsReset
    /\ UNCHANGED <<masterFile, datedFile>>

Requested(outcome) ==
    requests' = Append(requests,
                       [cat |-> cat, start |-> PageOffsets[page], outcome |-> outcome])

\* search_category returns `results`; collect_all_vendors extracts its records
\* and goes on to the next category, or returns the batch after the last one
ReturnCategory(results) ==
    /\ all_records' = all_records \o ExtractPlaces(results, Categories[cat])
    /\ all_results' = <<>>
    /\ page' = 1
    /\ IF cat < Len(Categories)
       THEN cat' = cat + 1 /\ pc' = "search"
       ELSE cat' = cat /\ pc' = "collected"

\* a page request answered with listings
FetchResults ==
    /\ pc = "search"
    /\ Requested("results")
    /\ IF page < Len(PageOffsets)
       THEN /\ all_results' = all_results \o LocalResults(cat, page)
            /\ page' = page + 1
            /\ UNCHANGED <<pc, cat, all_records>>
       ELSE ReturnCategory(all_results \o LocalResults(cat, page))
    /\ RunOutputsUnchanged
    /\ UNCHANGED <<runs, warned, masterFile, datedFile>>

\* a page request answered with no listings: break
FetchEmpty ==
    /\ pc = "search"
    /\ Requested("empty")
    /\ ReturnCategory(all_results)
    /\ RunOutputsUnchanged
    /\ UNCHANGED <<runs, warned, masterFile, datedFile>>

\* a plausible slip: the exception is not caught inside search_category and
\* ends the whole collection
FetchError_abortsRun ==
    /\ pc = "search"
    /\ Requested("error")
    /\ all_records' = all_records \o ExtractPlaces(all_results, Categories[cat])
    /\ all_results' = <<>>
    /\ page' = 1
    /\ cat' = cat
    /\ pc' = "collected"
    /\ RunOutputsUnchanged
    /\ UNCHANGED <<runs, warned, masterFile, datedFile>>

\* a page request that raises: logged, break
FetchError ==
    /\ pc = "search"
    /\ Requested("error")
    /\ ReturnCategory(all_results)
    /\ RunOutputsUnchanged
    /\ UNCHANGED <<runs, warned, masterFile, datedFile>>

\* a plausible slip: the new rows are put in front of the history
CombinedTable_newFirst(existing, new_only) ==
    IF existing # <<>> /\ new_only # <<>> THEN new_only \o existing
    ELSE IF existing # <<>> THEN existing
    ELSE new_only

\* main, step 4: the table handed to the master export
CombinedTable(existing, new_only) ==
    IF existing # <<>> /\ new_only # <<>> THEN existing \o new_only
    ELSE IF existing # <<>> THEN existing
    ELSE new_only

\* main, steps 2 to 4, on the collected batch new_df
ProcessBatch(new_df, readable) ==
    LET existing == load_existing_master(masterFile, readable)
        result   == deduplicate(new_df, existing)
        new_only == result[1]
        combined == CombinedTable(existing, new_only)
    IN  /\ existing_df' = existing
        /\ readFailed' = (masterFile.exists /\ ~readable)
        /\ new_only_df' = new_only
        /\ new_count' = result[2]
        /\ dup_count' = result[3]
        /\ datedWritten' = (new_only # <<>> /\ Writes(new_only))
        /\ datedFile' = IF new_only # <<>> THEN export_to_excel(new_only, datedFile)
                        ELSE datedFile
        /\ masterWritten' = Writes(combined)
        /\ masterFile' = export_to_excel(combined, masterFile)
        /\ pc' = "idle"

\* a plausible slip: the early return is missing and the run goes on to
\* rewrite the master from the loaded history
NoVendors_continues ==
    /\ pc = "collected"
    /\ all_records = <<>>
    /\ warned' = TRUE
    /\ ProcessBatch(all_records, TRUE)
    /\ UNCHANGED <<runs, cat, page, all_results, all_records, requests>>

\* main, step 1: nothing collected, warning, return
NoVendors ==
    /\ pc = "collected"
    /\ all_records = <<>>
    /\ warned' = TRUE
    /\ pc' = "idle"
    /\ RunOutputsUnchanged
    /\ UNCHANGED <<runs, cat, page, all_results, all_records, requests,
                   masterFile, datedFile>>

\* main, steps 2 to 4, the master absent or read without error
FinishRun ==
    /\ pc = "collected"
    /\ all_records # <<>>
    /\ ProcessBatch(all_records, TRUE)
    /\ UNCHANGED <<runs, cat, page, all_results, all_records, requests, warned>>

\* main, steps 2 to 4, the master present but pd.read_excel raises
FinishRunUnreadable ==
    /\ pc = "collected"
    /\ all_records # <<>>
    /\ masterFile.exists
    /\ ProcessBatch(all_records, FALSE)
    /\ UNCHANGED <<runs, cat, page, all_results, all_records, requests, warned>>

---------------------------------------------------------------------------
(* deduplicate() on drawn tables *)

BoundedSeq(S, n) == UNION {[1..k -> S] : k \in 0..n}

CategoryOf(c) == DropCity(VENDOR_CATEGORIES[c], TRUE)

\* rows as collect_all_vendors builds them
BatchRows ==
    { [Category |-> CategoryOf(1), BusinessName |-> PlaceAb.title,
       Address |-> PlaceAb.address],
      [Category |-> CategoryOf(2), BusinessName |-> PlaceAbLow.title,
       Address |-> PlaceAbLow.address],
      [Category |-> CategoryOf(1), BusinessName |-> PlaceZ.title,
       Address |-> PlaceZ.address] }

\* rows as load_existing_master returns them: vendor rows and footer rows read back
HistRows == BatchRows \cup {ReadSheet(FooterRows)[i] : i \in 1..Len(FooterRows)}

BatchTables == BoundedSeq(BatchRows, MaxLen)

\* a written sheet starts with a vendor row
HistTables == {h \in BoundedSeq(HistRows, MaxLen) : h = <<>> \/ h[1] \in BatchRows}

NoResult == <<<<>>, 0, 0>>

InitDedupIdle ==
    /\ dd_pc = "off"
    /\ dd_new = <<>>
    /\ dd_hist = <<>>
    /\ dd_out = NoResult
    /\ dd_again = NoResult

\* a table without rows reaches deduplicate as pd.DataFrame([]), which has no
\* columns to build keys from: main returns before passing one (line 352),
\* and only the empty-history shortcut does not index the columns
InitDedup ==
    /\ dd_pc = "call"
    /\ dd_new \in BatchTables
    /\ dd_hist \in HistTables
    /\ (dd_new = <<>>) => (dd_hist = <<>>)
    /\ dd_out = NoResult
    /\ dd_again = NoResult

\* deduplicate(batch, hist)
DedupCall ==
    /\ dd_pc = "call"
    /\ dd_out' = deduplicate(dd_new, dd_hist)
    /\ dd_pc' = "once"
    /\ UNCHANGED <<dd_new, dd_hist, dd_again>>

\* deduplicate(G, hist + G) with G the genuinely-new rows of the first call
DedupAgain ==
    /\ dd_pc = "once"
    /\ dd_again' = deduplicate(dd_out[1], dd_hist \o dd_out[1])
    /\ dd_pc' = "twice"
    /\ UNCHANGED <<dd_new, dd_hist, dd_out>>

---------------------------------------------------------------------------
(* validate_phone() on drawn inputs; phonenumbers answers as the environment *)

None == <<"#None">>

Digits == {"0", "1", "2", "3", "4", "5", "6", "7", "8", "9"}

RawPhones ==
    { None,
      <<>>,
      <<"a", "b", "c">>,
      <<"0", "9", "8", "7", "6", "5", " ", "4", "3", "2", "1", "0">>,
      <<"+", "9", "1", " ", "9", "8", "7", "6", "5", "-", "4", "3", "2", "1", "0">>,
      <<"1", "8", "0", "0", " ", "4", "2", "5", " ", "3", "8", "0", "0">>,
      <<"0", "0", "8", "0", "-", "2", "3">> }

\* re.sub(r"[^\d+]", "", raw)
IsDigitOrPlus(c) == c \in Digits \/ c = "+"
Cleaned(raw) == SelectSeq(raw, IsDigitOrPlus)

\* cleaned.lstrip('0')
RECURSIVE LStripZeros(_)
LStripZeros(s) == IF s # <<>> /\ Head(s) = "0" THEN LStripZeros(Tail(s)) ELSE s

\* [cleaned, f"+91{cleaned.lstrip('0')}"]
Candidates(raw) ==
    << Cleaned(raw), <<"+", "9", "1">> \o LStripZeros(Cleaned(raw)) >>

\* phonenumbers.PhoneNumberType
PhoneNumberTypes ==
    {"FIXED_LINE", "MOBILE", "FIXED_LINE_OR_MOBILE", "TOLL_FREE", "PREMIUM_RATE",
     "SHARED_COST", "VOIP", "PERSONAL_NUMBER", "PAGER", "UAN", "VOICEMAIL", "UNKNOWN"}

\* a plausible slip: toll-free numbers are let through
valid_types_tollFree == {"MOBILE", "FIXED_LINE", "FIXED_LINE_OR_MOBILE", "TOLL_FREE"}

valid_types == {"MOBILE", "FIXED_LINE", "FIXED_LINE_OR_MOBILE"}

\* what phonenumbers can answer for one candidate: parse raises, or it
\* returns a number that is or is not valid and has some line type
LibraryAnswers ==
    {[parses |-> FALSE, valid |-> FALSE, type |-> "UNKNOWN"]}
    \cup [parses : {TRUE}, valid : BOOLEAN, type : PhoneNumberTypes]

NoValue == [some |-> FALSE, e164_of |-> <<>>]

\* format_number(parse(candidate, "IN"), E164)
E164(candidate) == [some |-> TRUE, e164_of |-> candidate]

InitPhoneIdle ==
    /\ ph_pc = "off"
    /\ ph_raw = None
    /\ ph_idx = 1
    /\ ph_tried = <<>>
    /\ ph_ret = NoValue

InitPhone ==
    /\ ph_pc = "call"
    /\ ph_raw \in RawPhones
    /\ ph_idx = 1
    /\ ph_tried = <<>>
    /\ ph_ret = NoValue

\* if not raw: return None
PhoneEmpty ==
    /\ ph_pc = "call"
    /\ ph_raw = None \/ ph_raw = <<>>
    /\ ph_pc' = "done"
    /\ ph_ret' = NoValue
    /\ UNCHANGED <<ph_raw, ph_idx, ph_tried>>

\* the loop over the candidates is entered
PhoneClean ==
    /\ ph_pc = "call"
    /\ ~(ph_raw = None \/ ph_raw = <<>>)
    /\ ph_pc' = "loop"
    /\ ph_idx' = 1
    /\ UNCHANGED <<ph_raw, ph_tried, ph_ret>>

Tried(answer) ==
    ph_tried' = Append(ph_tried,
                       [candidate |-> Candidates(ph_raw)[ph_idx], answer |-> answer])

\* the next candidate, or return None after the last
NextCandidate ==
    /\ ph_idx' = ph_idx + 1
    /\ ph_ret' = NoValue
    /\ ph_pc' = IF ph_idx < Len(Candidates(ph_raw)) THEN "loop" ELSE "done"

Accepts(answer) == answer.parses /\ answer.valid /\ answer.type \in valid_types

\* phonenumbers.parse raises NumberParseException: continue
PhoneParseError ==
    /\ ph_pc = "loop"
    /\ \E answer \in LibraryAnswers :
          /\ ~answer.parses
          /\ Tried(answer)
    /\ NextCandidate
    /\ UNCHANGED ph_raw

\* parsed, but not valid or of a line type outside valid_types: next iteration
PhoneRejected ==
    /\ ph_pc = "loop"
    /\ \E answer \in LibraryAnswers :
          /\ answer.parses
          /\ ~Accepts(answer)
          /\ Tried(answer)
    /\ NextCandidate
    /\ UNCHANGED ph_raw

\* parsed, valid and of a line type in valid_types: return its E.164 form
PhoneAccepted ==
    /\ ph_pc = "loop"
    /\ \E answer \in LibraryAnswers :
          /\ Accepts(answer)
          /\ Tried(answer)
    /\ ph_ret' = E164(Candidates(ph_raw)[ph_idx])
    /\ ph_pc' = "done"
    /\ UNCHANGED <<ph_raw, ph_idx>>

---------------------------------------------------------------------------
(* Specifications *)

Init == InitPipeline /\ InitDedupIdle /\ InitPhoneIdle

Next ==
    \/ StartRun /\ UNCHANGED <<dedupVars, phoneVars>>
    \/ FetchResults /\ UNCHANGED <<dedupVars, phoneVars>>
    \/ FetchEmpty /\ UNCHANGED <<dedupVars, phoneVars>>
    \/ FetchError /\ UNCHANGED <<dedupVars, phoneVars>>
    \/ NoVendors /\ UNCHANGED <<dedupVars, phoneVars>>
    \/ FinishRun /\ UNCHANGED <<dedupVars, phoneVars>>
    \/ FinishRunUnreadable /\ UNCHANGED <<dedupVars, phoneVars>>

\* runs of main()
Spec == Init /\ [][Next]_vars

InitD == InitPipeline /\ InitDedup /\ InitPhoneIdle

NextD ==
    \/ DedupCall /\ UNCHANGED <<pipeVars, phoneVars>>
    \/ DedupAgain /\ UNCHANGED <<pipeVars, phoneVars>>

\* deduplicate() as a function of its two tables
SpecDedup == InitD /\ [][NextD]_vars

InitP == InitPipeline /\ InitDedupIdle /\ InitPhone

NextP ==
    \/ PhoneEmpty /\ UNCHANGED <<pipeVars, dedupVars>>
    \/ PhoneClean /\ UNCHANGED <<pipeVars, dedupVars>>
    \/ PhoneParseError /\ UNCHANGED <<pipeVars, dedupVars>>
    \/ PhoneRejected /\ UNCHANGED <<pipeVars, dedupVars>>
    \/ PhoneAccepted /\ UNCHANGED <<pipeVars, dedupVars>>

\* validate_phone() as a function of its input and the library's answers
SpecPhone == InitP /\ [][NextP]_vars

---------------------------------------------------------------------------
(* Properties *)

\* a run of main() has returned
RunEnded == pc = "idle" /\ runs > 0

\* the Identity Key as the specification words it: lowercased, trimmed name,
\* a separator, lowercased, trimmed address
IdentityKey(row) ==
    Strip(Lower(row.BusinessName)) \o <<"|", "|">> \o Strip(Lower(row.Address))

\* the j-th smallest index of a set of indices
Nth(indices, j) ==
    CHOOSE i \in indices : Cardinality({k \in indices : k < i}) = j - 1

\* the rows of a sheet that hold a vendor (a business name, not a footer)
VendorIndices(rows) ==
    {i \in 1..Len(rows) : rows[i].BusinessName # <<>> /\ rows[i].BusinessName # Formula}

\* C1: against a non-empty history, the genuinely-new table is exactly the
\* rows of the batch whose Identity Key no historical row has, in batch
\* order; rows of the batch that duplicate each other are all kept.
C1_GenuinelyNewIsKeyFilter ==
    (dd_pc # "call" /\ dd_pc # "off" /\ dd_hist # <<>>) =>
        LET known == {IdentityKey(dd_hist[i]) : i \in 1..Len(dd_hist)}
            keep  == {i \in 1..Len(dd_new) : IdentityKey(dd_new[i]) \notin known}
            G     == dd_out[1]
        IN  /\ Len(G) = Cardinality(keep)
            /\ \A j \in 1..Len(G) : G[j] = dd_new[Nth(keep, j)]

\* C1 happens: a known row is removed from the front of the batch and two
\* rows with one and the same key, new to the history, are both kept
C1_Witness ==
    /\ dd_pc = "once"
    /\ dd_hist # <<>>
    /\ Len(dd_new) = 3
    /\ Len(dd_out[1]) = 2
    /\ dd_out[1][1] # dd_out[1][2]
    /\ IdentityKey(dd_out[1][1]) = IdentityKey(dd_out[1][2])
    /\ dd_out[1][1] = dd_new[2]

\* C2 (as claimed): no two vendor rows of the master workbook have the same
\* Identity Key.
C2_MasterHasNoDuplicateKeys ==
    \A i, j \in VendorIndices(masterFile.rows) :
        i # j => IdentityKey(masterFile.rows[i]) # IdentityKey(masterFile.rows[j])

\* C3 (as claimed): after a run, the dated file was written iff the
\* genuinely-new table is non-empty, and the master was written whenever a
\* record exists in the persisted history or in the collected batch.
C3_MasterWrittenWheneverAnyRecord ==
    RunEnded =>
        /\ datedWritten <=> (new_only_df # <<>>)
        /\ (masterFile.exists \/ all_records # <<>>) => masterWritten

\* C3 (amended): after a run, the dated file was written iff the
\* genuinely-new table is non-empty, and the master was written iff the
\* collected batch is non-empty.
C3_MasterWrittenIffBatchNonEmpty ==
    RunEnded =>
        /\ datedWritten <=> (new_only_df # <<>>)
        /\ masterWritten <=> (all_records # <<>>)

\* C3 happens: a run whose batch holds only known vendors skips the dated
\* file and rewrites the master
C3_Witness ==
    /\ RunEnded
    /\ all_records # <<>>
    /\ new_only_df = <<>>
    /\ masterWritten
    /\ ~datedWritten

\* C4: a second deduplicate, of the genuinely-new rows against the history
\* followed by those rows, returns no genuinely-new row.
C4_DedupIdempotent ==
    dd_pc = "twice" => (dd_again[1] = <<>> /\ dd_again[2] = 0)

\* C4 happens: the first call kept some rows and removed others
C4_Witness ==
    /\ dd_pc = "twice"
    /\ dd_hist # <<>>
    /\ dd_out[1] # <<>>
    /\ dd_out[3] > 0
    /\ dd_again[3] = Len(dd_out[1])

\* C5: against an empty history deduplicate returns the batch unchanged, its
\* length as the new count, and 0 as the duplicate count.
C5_EmptyHistoryReturnsBatch ==
    (dd_pc # "call" /\ dd_pc # "off" /\ dd_hist = <<>>) =>
        dd_out = <<dd_new, Len(dd_new), 0>>

\* C5 happens: an empty history and a batch that repeats a key
C5_Witness ==
    /\ dd_pc = "once"
    /\ dd_hist = <<>>
    /\ Len(dd_new) = 3
    /\ IdentityKey(dd_new[1]) = IdentityKey(dd_new[3])
    /\ dd_out[2] = 3

\* C6: within a category the pages are requested in increasing offset order,
\* at most the three offsets; a request that fails or returns nothing is the
\* last request of its category; the categories are requested in list order,
\* none is skipped, and when collection has ended every category has been
\* requested.
C6_PaginationStopsPerCategory ==
    LET R == requests
        PageNo(i) == Cardinality({k \in 1..i : R[k].cat = R[i].cat})
        Cats == {R[i].cat : i \in 1..Len(R)}
    IN  /\ \A i \in 1..Len(R) :
              /\ PageNo(i) <= Len(PageOffsets)
              /\ R[i].start = PageOffsets[PageNo(i)]
        /\ \A i \in 1..(Len(R) - 1) :
              /\ R[i + 1].cat \in {R[i].cat, R[i].cat + 1}
              /\ (R[i + 1].cat = R[i].cat) => (R[i].outcome = "results")
        /\ (R # <<>>) => (R[1].cat = 1)
        /\ (pc = "search") => (1..(cat - 1)) \subseteq Cats
        /\ (pc = "collected" \/ RunEnded) => (Cats = 1..Len(Categories))

\* C6 happens: a request past the first page of a category failed, another
\* returned nothing, and the run went on and ended
C6_Witness ==
    /\ RunEnded
    /\ \E i, j \in 1..Len(requests) :
          /\ requests[i].outcome = "error"
          /\ requests[i].start = 20
          /\ requests[i].cat = 1
          /\ requests[j].outcome = "empty"
          /\ requests[j].cat = 2

\* C7: a run that collected nothing logs the warning and returns with both
\* files exactly as they were, whatever the master holds.
C7_EmptyRunWritesNothing ==
    [][(pc = "collected" /\ all_records = <<>>) =>
          /\ warned'
          /\ ~datedWritten'
          /\ ~masterWritten'
          /\ masterFile' = masterFile
          /\ datedFile' = datedFile]_vars

\* C7 happens: the provider answered with listings (all closed), nothing was
\* collected, and the master holds earlier vendors
C7_Witness ==
    /\ RunEnded
    /\ warned
    /\ all_records = <<>>
    /\ masterFile.exists
    /\ \E i \in 1..Len(requests) : requests[i].outcome = "results"

\* C8: when a run has written the master, the workbook holds exactly the
\* table load_existing_master returned followed by the genuinely-new rows
\* (and the footer of the sheet), and nothing else of the previous file.
C8_MasterIsHistoryThenNew ==
    (RunEnded /\ masterWritten) =>
        masterFile = [exists |-> TRUE, rows |-> SheetRows(existing_df \o new_only_df)]

\* C8 happens: a non-empty history was loaded and new rows were added to it
C8_Witness ==
    /\ RunEnded
    /\ masterWritten
    /\ existing_df # <<>>
    /\ new_only_df # <<>>
    /\ ~readFailed

\* the candidates as the claim words them
C9_Candidates(raw) ==
    LET cleaned == SelectSeq(raw, LAMBDA c : c \in Digits \/ c = "+")
    IN  << cleaned, <<"+", "9", "1">> \o LStripZeros(cleaned) >>

C9_Qualifies(t) ==
    /\ t.answer.parses
    /\ t.answer.valid
    /\ t.answer.type \in {"MOBILE", "FIXED_LINE", "FIXED_LINE_OR_MOBILE"}

\* C9: validate_phone tries the cleaned string and then +91 with the leading
\* zeros stripped, in that order; it returns the E.164 form of the first
\* candidate that parses, is valid and is mobile, fixed-line or
\* fixed-line-or-mobile; it returns no value for an empty input or when
\* neither candidate qualifies, a parse failure of the first not preventing
\* the second attempt; it never returns a number of another line type.
C9_ValidatePhone ==
    (ph_pc = "done") =>
        IF ph_raw = None \/ ph_raw = <<>>
        THEN ph_ret = NoValue /\ ph_tried = <<>>
        ELSE LET n == Len(ph_tried)
             IN  /\ n \in 1..2
                 /\ \A k \in 1..n : ph_tried[k].candidate = C9_Candidates(ph_raw)[k]
                 /\ \A k \in 1..(n - 1) : ~C9_Qualifies(ph_tried[k])
                 /\ IF C9_Qualifies(ph_tried[n])
                    THEN ph_ret = [some |-> TRUE, e164_of |-> ph_tried[n].candidate]
                    ELSE n = 2 /\ ph_ret = NoValue

\* C9 happens: the first candidate did not parse and the second was returned
C9_Witness ==
    /\ ph_pc = "done"
    /\ Len(ph_tried) = 2
    /\ ~ph_tried[1].answer.parses
    /\ ph_ret.some
    /\ ph_ret.e164_of = <<"+", "9", "1", "9", "8", "7", "6", "5", "4", "3", "2", "1", "0">>

\* C10 (as claimed): no step of any run removes a vendor from the master
\* workbook: every Identity Key held by a vendor row before the step is held
\* by a vendor row after it.
C10_MasterNeverLosesRecord ==
    [][\A i \in VendorIndices(masterFile.rows) :
          \E j \in VendorIndices(masterFile'.rows) :
              IdentityKey(masterFile'.rows[j]) = IdentityKey(masterFile.rows[i])]_vars

=============================================================================
